---- MODULE Spec2Model ----
(***************************************************************************)
(* The JSON-RPC bridge of the 2TTS desktop shell: BackendState, ipc_call   *)
(* (commands.rs) and spawn_backend with its dispatch loop (lib.rs).        *)
(*                                                                         *)
(* Text is modelled at token level.  A byte of the backend's stdout is one *)
(* of                                                                      *)
(*   "\n"  the line terminator          " "   a whitespace byte            *)
(*   "i1" "i2"  the opening of a response object carrying "id":1 / "id":2  *)
(*   "n"   the opening of a response object without identifier             *)
(*   "m"   a result object's "method":"m" member                           *)
(*   "a"   one ASCII character of string content                           *)
(*   "L" "K"  the lead and the continuation byte of one two-byte UTF-8     *)
(*            character, the character "e2" once decoded                   *)
(*   "x"   a byte that fits no JSON grammar                                *)
(* and "?" is U+FFFD, the replacement character of a lossy decoding.       *)
(* A caller payload is made of "q1" "q2" (a complete request object with   *)
(* "id":1 / "id":2), "x" and "\n".                                         *)
(***************************************************************************)
EXTENDS Integers, Sequences, FiniteSets, TLC

\* Bounds of the model.
MaxCalls == 1       \* invocations of ipc_call per caller
MaxEmit  == 3       \* command events the backend delivers to the loop
MaxChunk == 2       \* bytes of one stdout chunk, when chunks are arbitrary
MaxStream == 6      \* bytes of the whole stdout stream, when chunks are arbitrary
MaxPayload == 3     \* bytes of a request payload, when payloads are arbitrary

Callers == {"c1", "c2"}
Ids     == {1, 2}

\* Option<T>: <<>> is None, <<v>> is Some(v).
None    == <<>>
Some(v) == <<v>>

VARIABLES
  child,          \* BackendState.child: None or Some("child")
  backend_error,  \* BackendState.backend_error: Option<String>
  pending,        \* BackendState.pending_requests: id -> Option<sender>
  setup,          \* run()'s setup hook: "todo" until spawn_backend was called
  pc,             \* per caller: position inside ipc_call
  req,            \* per caller: request_str
  id,             \* per caller: Option of request.id
  ncall,          \* per caller: number of invocations started
  chan,           \* per caller: the oneshot channel of the current invocation
  werr,           \* per caller: the error of a failed state.write
  ret,            \* per caller: Option of the value ipc_call returned
  stdin,          \* the byte strings written to the child, in order
  lpc,            \* dispatch loop: "none", "recv", "lines", "terminated"
                  \* (left at Terminated), "stopped" (event channel closed)
  buffer,         \* dispatch loop: the partial-line buffer
  nemit,          \* number of command events the loop has received
  trace,          \* whether the two history variables below are recorded
                  \* (they are under SpecFrame, which compares them)
  stream,         \* history: all stdout bytes received, concatenated
  decoded,        \* history: the responses the loop has decoded, in order
  events,         \* the payloads emitted as "backend-event", in order
  orphans,        \* history: the senders the table held when the loop
                  \* observed Terminated
  held            \* lock |-> None or Some([by, at]): the process that last
                  \* took the guard of that parking_lot::Mutex of
                  \* BackendState, and the statement it was executing

vars == <<child, backend_error, pending, setup, pc, req, id, ncall, chan, werr,
          ret, stdin, lpc, buffer, nemit, trace, stream, decoded, events,
          orphans, held>>

\* The mutexes of BackendState (lib.rs 53-58) and the threads of control that
\* take them: the invocations, the dispatch task and the setup hook.
Locks == {"child", "pending_requests", "backend_error"}
Procs == Callers \cup {"loop", "setup"}

bridge  == <<child, backend_error, setup, held>>
callers == <<pc, req, id, ncall, werr, ret, stdin>>
loop    == <<lpc, buffer, nemit, trace, stream, decoded, events, orphans>>

-----------------------------------------------------------------------------
\* Envelopes

JsonRpcError(code, message) == [code |-> code, message |-> message, data |-> None]

JsonRpcResponse(result, error, rid) ==
  [jsonrpc |-> "2.0", result |-> result, error |-> error, id |-> rid]

\* ipc_call's Result<String, String>; the serialized envelope stands for the string.
Ok(body)  == [via |-> "Ok", body |-> body]
Err(body) == [via |-> "Err", body |-> body]

InternalError == -32603
ParseError    == -32700

NotRunningGeneric(err) ==
  JsonRpcResponse(None, Some(JsonRpcError(InternalError, "Backend not running")), None)

NotRunningResponse(err) ==
  JsonRpcResponse(None,
                  Some(JsonRpcError(InternalError,
                                    IF err = None THEN "Backend not running" ELSE err[1])),
                  None)

ParseErrorAsInternal ==
  JsonRpcResponse(None, Some(JsonRpcError(InternalError, "Parse error")), None)

ParseErrorResponse ==
  JsonRpcResponse(None, Some(JsonRpcError(ParseError, "Parse error")), None)

WriteErrorNoId(e, rid) ==
  JsonRpcResponse(None, Some(JsonRpcError(InternalError, e)), None)

WriteErrorResponse(e, rid) ==
  JsonRpcResponse(None, Some(JsonRpcError(InternalError, e)), Some(rid))

CancelledResponse(rid) ==
  JsonRpcResponse(None, Some(JsonRpcError(InternalError, "Request cancelled")), Some(rid))

TimeoutResponse(rid) ==
  JsonRpcResponse(None, Some(JsonRpcError(InternalError, "Request timeout")), Some(rid))

-----------------------------------------------------------------------------
\* Text: str::find, str::trim, String::from_utf8_lossy, serde_json::from_str

Whitespace == {" ", "\n"}
Content    == {"a", "e2", "?", " "}     \* characters a JSON string may hold
Heads      == {"i1", "i2", "n"}

\* String::from_utf8_lossy: a complete two-byte sequence is its character, a
\* lead byte without its continuation and a stray continuation byte are U+FFFD.
RECURSIVE from_utf8_lossy(_)
from_utf8_lossy(bytes) ==
  IF bytes = <<>> THEN <<>>
  ELSE IF bytes[1] = "L"
    THEN IF Len(bytes) >= 2 /\ bytes[2] = "K"
           THEN <<"e2">> \o from_utf8_lossy(SubSeq(bytes, 3, Len(bytes)))
           ELSE <<"?">> \o from_utf8_lossy(Tail(bytes))
  ELSE IF bytes[1] = "K"
    THEN <<"?">> \o from_utf8_lossy(Tail(bytes))
  ELSE <<bytes[1]>> \o from_utf8_lossy(Tail(bytes))

\* str::find('\n'): the position of the first line terminator, 0 for None.
find_newline(s) ==
  IF \E k \in 1..Len(s) : s[k] = "\n"
    THEN CHOOSE k \in 1..Len(s) : s[k] = "\n" /\ \A j \in 1..(k - 1) : s[j] # "\n"
    ELSE 0

\* str::trim
RECURSIVE trim_start(_)
trim_start(s) ==
  IF s # <<>> /\ s[1] \in Whitespace THEN trim_start(Tail(s)) ELSE s

RECURSIVE trim_end(_)
trim_end(s) ==
  IF s # <<>> /\ s[Len(s)] \in Whitespace THEN trim_end(SubSeq(s, 1, Len(s) - 1)) ELSE s

trim(s) == trim_end(trim_start(s))

\* serde_json::from_str::<JsonRpcRequest>: surrounding whitespace is skipped,
\* what remains must be exactly one request object.
from_str_request(s) ==
  LET t == trim(s)
  IN  IF t = <<"q1">> THEN [ok |-> TRUE, id |-> 1]
      ELSE IF t = <<"q2">> THEN [ok |-> TRUE, id |-> 2]
      ELSE [ok |-> FALSE, id |-> 0]

\* A result value: a JSON string (method None, text its characters) or an
\* object with a "method" member (text the characters of its "params").
ResultValue(body) ==
  IF body[1] = "m"
    THEN [method |-> Some("m"), text |-> Tail(body)]
    ELSE [method |-> None, text |-> body]

HeadId(h) == IF h = "i1" THEN Some(1) ELSE IF h = "i2" THEN Some(2) ELSE None

\* serde_json::from_str::<JsonRpcResponse> on a trimmed, non-empty line: the
\* opening of a response object followed by its result value.
from_str_response(line) ==
  IF /\ Len(line) >= 2
     /\ line[1] \in Heads
     /\ line[2] \in Content \cup {"m"}
     /\ \A k \in 3..Len(line) : line[k] \in Content
    THEN [ok |-> TRUE,
          resp |-> JsonRpcResponse(Some(ResultValue(Tail(line))), None, HeadId(line[1]))]
    ELSE [ok |-> FALSE, resp |-> JsonRpcResponse(None, None, None)]

-----------------------------------------------------------------------------
\* BackendState (lib.rs)

is_running(c) == c # None

get_error(e) == e

\* A oneshot channel: "none" before oneshot::channel(), "open" while the sender
\* is alive and nothing was sent, "sent" with the value, "closed" when the
\* sender was dropped unused, "dropped" when the receiver is gone.
NoChan       == [st |-> "none", val |-> None]
OpenChan     == [st |-> "open", val |-> None]
ClosedChan   == [st |-> "closed", val |-> None]
DroppedChan  == [st |-> "dropped", val |-> None]
SentChan(r)  == [st |-> "sent", val |-> Some(r)]

\* A sender names the invocation that holds its receiver: <<caller, ncall>>.
Sender(p) == <<p, ncall[p]>>

Receives(ch, q, slot) ==
  slot # None /\ slot[1][1] = q /\ slot[1][2] = ncall[q] /\ ch[q].st = "open"

\* Dropping the sender held in slot (an Option<sender>) without sending.
drop_sender(ch, slot) ==
  [q \in Callers |-> IF Receives(ch, q, slot) THEN ClosedChan ELSE ch[q]]

send_nothing(ch, slot, response) == drop_sender(ch, slot)

\* sender.send(response) on the sender held in slot.
send(ch, slot, response) ==
  [q \in Callers |-> IF Receives(ch, q, slot) THEN SentChan(response) ELSE ch[q]]

\* HashMap::insert and HashMap::remove on pending_requests: the map afterwards.
insert_if_absent(pend, rid, sender) ==
  IF pend[rid] = None THEN [pend EXCEPT ![rid] = Some(sender)] ELSE pend

insert(pend, rid, sender) == [pend EXCEPT ![rid] = Some(sender)]

remove_all(pend, rid) == [i \in Ids |-> None]

remove_nothing(pend, rid) == pend

remove(pend, rid) == [pend EXCEPT ![rid] = None]

taken_any(pend, rid) ==
  IF \E i \in Ids : pend[i] # None
    THEN pend[CHOOSE i \in Ids : pend[i] # None]
    ELSE None

\* The Option<sender> that HashMap::insert replaces and HashMap::remove returns.
taken(pend, rid) == pend[rid]

Init ==
  /\ child = None
  /\ backend_error = None
  /\ pending = [i \in Ids |-> None]
  /\ setup = "todo"
  /\ pc = [p \in Callers |-> "idle"]
  /\ req = [p \in Callers |-> <<>>]
  /\ id = [p \in Callers |-> None]
  /\ ncall = [p \in Callers |-> 0]
  /\ chan = [p \in Callers |-> NoChan]
  /\ werr = [p \in Callers |-> None]
  /\ ret = [p \in Callers |-> None]
  /\ stdin = <<>>
  /\ lpc = "none"
  /\ buffer = <<>>
  /\ nemit = 0
  /\ trace = FALSE
  /\ stream = <<>>
  /\ decoded = <<>>
  /\ events = <<>>
  /\ orphans = {}
  /\ held = [l \in Locks |-> None]

-----------------------------------------------------------------------------
\* spawn_backend (lib.rs), called once from run()'s setup hook

\* shell.sidecar("backend") fails: the error is logged and returned.
SpawnSidecarFails ==
  /\ setup = "todo"
  /\ setup' = "done"
  /\ UNCHANGED <<child, backend_error, held, pending, chan, callers, loop>>

\* sidecar.spawn() fails: the error is logged, recorded and returned.
SpawnFails ==
  /\ setup = "todo"
  /\ setup' = "done"
  /\ backend_error' = Some("Failed to spawn backend")
  /\ UNCHANGED <<child, held, pending, chan, callers, loop>>

\* The sidecar is spawned: the handle is stored and the dispatch loop started.
SpawnOk ==
  /\ setup = "todo"
  /\ setup' = "done"
  /\ child' = Some("child")
  /\ lpc' = "recv"
  /\ UNCHANGED <<backend_error, held, pending, chan, callers, buffer, nemit,
                 trace, stream, decoded, events, orphans>>

-----------------------------------------------------------------------------
\* ipc_call (commands.rs)

RequestPayloads == {<<"q1">>, <<"q2", "\n">>, <<"x">>}

\* commands.rs 45-48: the line written for a payload.
request_line(request_str) ==
  IF request_str # <<>> /\ request_str[Len(request_str)] = "\n"
    THEN request_str
    ELSE Append(request_str, "\n")

request_id_fixed(request) == 1

\* 40: the identifier the call registers and reports.
request_id(request) == request.id

\* BackendState::write: Err without a handle, else the outcome of child.write.
write(c, io_ok) ==
  IF c = None THEN Some("Backend not running")
  ELSE IF io_ok THEN None
  ELSE Some("Failed to write to backend")

\* 11, 26-43: the running check, then the decoding of the payload; a payload
\* that decodes gets its channel.
CallStart(p, payload) ==
  /\ pc[p] \in {"idle", "done"}
  /\ ncall[p] < MaxCalls
  /\ ncall' = [ncall EXCEPT ![p] = @ + 1]
  /\ req' = [req EXCEPT ![p] = payload]
  /\ werr' = [werr EXCEPT ![p] = None]
  /\ IF ~is_running(child)
       THEN /\ pc' = [pc EXCEPT ![p] = "not_running"]
            /\ id' = [id EXCEPT ![p] = None]
            /\ ret' = [ret EXCEPT ![p] = None]
            /\ chan' = [chan EXCEPT ![p] = NoChan]
       ELSE LET request == from_str_request(payload)
            IN  IF ~request.ok
                  THEN /\ pc' = [pc EXCEPT ![p] = "done"]
                       /\ id' = [id EXCEPT ![p] = None]
                       /\ ret' = [ret EXCEPT ![p] = Some(Err(ParseErrorResponse))]
                       /\ chan' = [chan EXCEPT ![p] = NoChan]
                  ELSE /\ pc' = [pc EXCEPT ![p] = "add_pending"]
                       /\ id' = [id EXCEPT ![p] = Some(request_id(request))]
                       /\ ret' = [ret EXCEPT ![p] = None]
                       /\ chan' = [chan EXCEPT ![p] = OpenChan]
  /\ UNCHANGED <<bridge, pending, stdin, loop>>

\* 12-23: the backend-unavailable response.
ReturnNotRunning(p) ==
  /\ pc[p] = "not_running"
  /\ pc' = [pc EXCEPT ![p] = "done"]
  /\ ret' = [ret EXCEPT ![p] = Some(Ok(NotRunningResponse(get_error(backend_error))))]
  /\ UNCHANGED <<bridge, pending, chan, req, id, ncall, werr, stdin, loop>>

AddPendingSkipped(p) ==
  /\ pc[p] = "add_pending"
  /\ pc' = [pc EXCEPT ![p] = "write"]
  /\ UNCHANGED <<bridge, pending, chan, req, id, ncall, werr, ret, stdin, loop>>

\* 43: state.add_pending(id, tx); a sender already stored under id is dropped.
AddPending(p) ==
  /\ pc[p] = "add_pending"
  /\ pc' = [pc EXCEPT ![p] = "write"]
  /\ pending' = insert(pending, id[p][1], Sender(p))
  /\ chan' = drop_sender(chan, taken(pending, id[p][1]))
  /\ UNCHANGED <<bridge, req, id, ncall, werr, ret, stdin, loop>>

\* 45-50: state.write(request_line).
Write(p, io_ok) ==
  /\ pc[p] = "write"
  /\ LET e == write(child, io_ok)
     IN  IF e = None
           THEN /\ stdin' = Append(stdin, request_line(req[p]))
                /\ pc' = [pc EXCEPT ![p] = "await"]
                /\ werr' = werr
           ELSE /\ stdin' = stdin
                /\ pc' = [pc EXCEPT ![p] = "write_failed"]
                /\ werr' = [werr EXCEPT ![p] = e]
  /\ UNCHANGED <<bridge, pending, chan, req, id, ncall, ret, loop>>

ReturnWriteFailedLeaks(p) ==
  /\ pc[p] = "write_failed"
  /\ pc' = [pc EXCEPT ![p] = "done"]
  /\ chan' = [chan EXCEPT ![p] = NoChan]
  /\ ret' = [ret EXCEPT ![p] = Some(Ok(WriteErrorResponse(werr[p][1], id[p][1])))]
  /\ UNCHANGED <<bridge, pending, req, id, ncall, werr, stdin, loop>>

\* 51-62: the write failed: the entry under id is removed.
ReturnWriteFailed(p) ==
  /\ pc[p] = "write_failed"
  /\ pc' = [pc EXCEPT ![p] = "done"]
  /\ pending' = remove(pending, id[p][1])
  /\ chan' = [drop_sender(chan, taken(pending, id[p][1])) EXCEPT ![p] = NoChan]
  /\ ret' = [ret EXCEPT ![p] = Some(Ok(WriteErrorResponse(werr[p][1], id[p][1])))]
  /\ UNCHANGED <<bridge, req, id, ncall, werr, stdin, loop>>

\* 65-66: the receiver holds a response.
AwaitDelivered(p) ==
  /\ pc[p] = "await"
  /\ chan[p].st = "sent"
  /\ pc' = [pc EXCEPT ![p] = "done"]
  /\ ret' = [ret EXCEPT ![p] = Some(Ok(chan[p].val[1]))]
  /\ chan' = [chan EXCEPT ![p] = NoChan]
  /\ UNCHANGED <<bridge, pending, req, id, ncall, werr, stdin, loop>>

\* 67-79: the sender was dropped without a response.
AwaitCancelled(p) ==
  /\ pc[p] = "await"
  /\ chan[p].st = "closed"
  /\ pc' = [pc EXCEPT ![p] = "done"]
  /\ ret' = [ret EXCEPT ![p] = Some(Ok(CancelledResponse(id[p][1])))]
  /\ chan' = [chan EXCEPT ![p] = NoChan]
  /\ UNCHANGED <<bridge, pending, req, id, ncall, werr, stdin, loop>>

AwaitTimeoutRearmed(p) ==
  /\ pc[p] = "await"
  /\ chan[p].st = "open"
  /\ UNCHANGED vars

\* 65, 80: the 30 s timer fires while the receiver is still empty; the
\* receiver is dropped with the timeout future.
AwaitTimeout(p) ==
  /\ pc[p] = "await"
  /\ chan[p].st = "open"
  /\ pc' = [pc EXCEPT ![p] = "timeout"]
  /\ chan' = [chan EXCEPT ![p] = DroppedChan]
  /\ UNCHANGED <<bridge, pending, req, id, ncall, werr, ret, stdin, loop>>

\* 81-92: the entry under id is removed and the timeout response returned.
ReturnTimeout(p) ==
  /\ pc[p] = "timeout"
  /\ pc' = [pc EXCEPT ![p] = "done"]
  /\ pending' = remove(pending, id[p][1])
  /\ chan' = [drop_sender(chan, taken(pending, id[p][1])) EXCEPT ![p] = NoChan]
  /\ ret' = [ret EXCEPT ![p] = Some(Ok(TimeoutResponse(id[p][1])))]
  /\ UNCHANGED <<bridge, req, id, ncall, werr, stdin, loop>>

ipc_call(p) ==
  \/ \E payload \in RequestPayloads : CallStart(p, payload)
  \/ ReturnNotRunning(p)
  \/ AddPending(p)
  \/ \E io_ok \in BOOLEAN : Write(p, io_ok)
  \/ ReturnWriteFailed(p)
  \/ AwaitDelivered(p)
  \/ AwaitCancelled(p)
  \/ AwaitTimeout(p)
  \/ ReturnTimeout(p)

-----------------------------------------------------------------------------
\* The dispatch loop of spawn_backend (lib.rs 145-197)

\* 155-156: the line cut off the buffer, and what stays in the buffer.
json_line(buf) == trim(SubSeq(buf, 1, find_newline(buf) - 1))

rest(buf) == SubSeq(buf, find_newline(buf) + 1, Len(buf))

\* 154: the position the loop is at once the buffer is buf.
after(buf) == IF find_newline(buf) # 0 THEN "lines" ELSE "recv"

\* 168-169: a response without identifier whose result names a method.
is_event(response) ==
  /\ response.id = None
  /\ response.result # None
  /\ response.result[1].method # None

backend_event_no_params(result) == [method |-> result.method[1], params |-> <<>>]

\* 170-173: the payload emitted as "backend-event".
backend_event(result) == [method |-> result.method[1], params |-> result.text]

\* 150-153: CommandEvent::Stdout(line_bytes).
RecvStdout(chunk) ==
  /\ lpc = "recv"
  /\ nemit' = nemit + 1
  /\ stream' = IF trace THEN stream \o chunk ELSE stream
  /\ buffer' = buffer \o from_utf8_lossy(chunk)
  /\ lpc' = after(buffer')
  /\ UNCHANGED <<bridge, pending, chan, callers, trace, decoded, events, orphans>>

\* 154-181: one turn of the inner loop: a line is cut off, decoded and routed.
DispatchLine ==
  /\ lpc = "lines"
  /\ buffer' = rest(buffer)
  /\ lpc' = after(buffer')
  /\ LET line == json_line(buffer)
         parsed == from_str_response(line)
         response == parsed.resp
     IN  IF line = <<>> \/ ~parsed.ok
           THEN UNCHANGED <<pending, chan, decoded, events>>
           ELSE /\ decoded' = IF trace THEN Append(decoded, response) ELSE decoded
                /\ IF response.id # None
                     THEN /\ pending' = remove(pending, response.id[1])
                          /\ chan' = send(chan, taken(pending, response.id[1]), response)
                          /\ events' = events
                     ELSE /\ events' = IF is_event(response)
                                         THEN Append(events, backend_event(response.result[1]))
                                         ELSE events
                          /\ UNCHANGED <<pending, chan>>
  /\ UNCHANGED <<bridge, callers, nemit, trace, stream, orphans>>

\* 183-189, 194: stderr, error and any other event are logged or ignored.
RecvOther ==
  /\ lpc = "recv"
  /\ nemit' = nemit + 1
  /\ UNCHANGED <<bridge, pending, chan, callers, lpc, buffer, trace, stream,
                 decoded, events, orphans>>

RecvTerminatedSweep ==
  /\ lpc = "recv"
  /\ lpc' = "terminated"
  /\ nemit' = nemit + 1
  /\ orphans' = {pending[i][1] : i \in {j \in Ids : pending[j] # None}}
  /\ pending' = [i \in Ids |-> None]
  /\ chan' = [q \in Callers |->
               IF \E i \in Ids : Receives(chan, q, pending[i])
                 THEN ClosedChan ELSE chan[q]]
  /\ UNCHANGED <<bridge, callers, buffer, trace, stream, decoded, events>>

\* 190-193: CommandEvent::Terminated breaks the loop.
RecvTerminated ==
  /\ lpc = "recv"
  /\ lpc' = "terminated"
  /\ nemit' = nemit + 1
  /\ orphans' = {pending[i][1] : i \in {j \in Ids : pending[j] # None}}
  /\ UNCHANGED <<bridge, pending, chan, callers, buffer, trace, stream, decoded,
                 events>>

\* 148: rx.recv() yields None once the event channel is closed.
RecvClosed ==
  /\ lpc = "recv"
  /\ lpc' = "stopped"
  /\ UNCHANGED <<bridge, pending, chan, callers, buffer, nemit, trace, stream,
                 decoded, events, orphans>>

-----------------------------------------------------------------------------
\* The bridge with callers: the backend writes whole lines.

LineChunks ==
  { <<"i1", "a", "\n">>, <<"i2", "a", "\n">>, <<"i1", "a", "a", "\n">>,
    <<"n", "m", "a", "\n">>, <<"x", "\n">> }

Next ==
  \/ SpawnSidecarFails
  \/ SpawnFails
  \/ SpawnOk
  \/ \E p \in Callers : ipc_call(p)
  \/ \E chunk \in LineChunks : nemit < MaxEmit /\ RecvStdout(chunk)
  \/ DispatchLine
  \/ nemit < MaxEmit /\ RecvOther
  \/ nemit < MaxEmit /\ RecvTerminated
  \/ RecvClosed

Spec == Init /\ [][Next]_vars

\* The steps of an invocation once it has started: the runtime polls a task
\* that can make progress, and the 30 s timer of an awaiting call fires.
Progress(p) ==
  \/ ReturnNotRunning(p)
  \/ AddPending(p)
  \/ \E io_ok \in BOOLEAN : Write(p, io_ok)
  \/ ReturnWriteFailed(p)
  \/ AwaitDelivered(p)
  \/ AwaitCancelled(p)
  \/ AwaitTimeout(p)
  \/ ReturnTimeout(p)

LiveSpec == Spec /\ \A p \in Callers : WF_vars(Progress(p))

-----------------------------------------------------------------------------
\* The dispatch loop alone, on a stdout stream cut into arbitrary chunks.

FrameBytes == {"\n", " ", "i1", "a", "L", "K"}

FrameChunks ==
  UNION { [1..n -> FrameBytes] : n \in 1..MaxChunk }

InitFrame ==
  /\ child = Some("child")
  /\ backend_error = None
  /\ pending = [i \in Ids |-> None]
  /\ setup = "done"
  /\ pc = [p \in Callers |-> "idle"]
  /\ req = [p \in Callers |-> <<>>]
  /\ id = [p \in Callers |-> None]
  /\ ncall = [p \in Callers |-> 0]
  /\ chan = [p \in Callers |-> NoChan]
  /\ werr = [p \in Callers |-> None]
  /\ ret = [p \in Callers |-> None]
  /\ stdin = <<>>
  /\ lpc = "recv"
  /\ buffer = <<>>
  /\ nemit = 0
  /\ trace = TRUE
  /\ stream = <<>>
  /\ decoded = <<>>
  /\ events = <<>>
  /\ orphans = {}
  /\ held = [l \in Locks |-> None]

NextFrame ==
  \/ \E chunk \in FrameChunks :
       Len(stream) + Len(chunk) <= MaxStream /\ RecvStdout(chunk)
  \/ DispatchLine

SpecFrame == InitFrame /\ [][NextFrame]_vars

\* The newline-terminated lines of a text, in order.
RECURSIVE lines_of(_)
lines_of(text) ==
  IF find_newline(text) = 0 THEN <<>>
  ELSE <<SubSeq(text, 1, find_newline(text) - 1)>> \o lines_of(rest(text))

RECURSIVE well_formed(_)
well_formed(ls) ==
  IF ls = <<>> THEN <<>>
  ELSE LET t == trim(ls[1])
       IN  IF t # <<>> /\ from_str_response(t).ok
             THEN <<from_str_response(t).resp>> \o well_formed(Tail(ls))
             ELSE well_formed(Tail(ls))

\* The responses held by the well-formed, non-blank, terminated lines of a
\* byte stream read as UTF-8.
stream_messages(bytes) == well_formed(lines_of(from_utf8_lossy(bytes)))

\* C8: however the stream is cut into chunks, once the loop has worked off a
\* chunk the responses it has decoded are exactly those of the well-formed
\* non-blank terminated lines of the concatenated stream, in order, each once.
C8_FramingExact ==
  lpc = "recv" => decoded = stream_messages(stream)

-----------------------------------------------------------------------------
\* Properties

\* The step is a turn of the inner loop; the line it reads; its response.
LineRead == lpc = "lines" /\ buffer' # buffer
ReadOk   == json_line(buffer) # <<>> /\ from_str_response(json_line(buffer)).ok
Read     == from_str_response(json_line(buffer)).resp

\* The step is the start of an invocation by p; p has returned.
Starts(p)   == ncall'[p] # ncall[p]
Returned(p) == pc[p] = "done" /\ ret[p] # None
Body(p)     == ret[p][1].body

\* C1: when the loop reads a line carrying identifier I while the call whose
\* waiter is registered under I is awaiting with its timer not fired, the
\* waiter receives exactly that response and I leaves the table; the response
\* stays in the channel until the call returns, and the call returns it.
C1_DeliveredToWaiter ==
  [][\A p \in Callers :
       /\ ( /\ LineRead /\ ReadOk /\ Read.id # None
            /\ pc[p] = "await" /\ chan[p].st = "open"
            /\ pending[Read.id[1]] = Some(Sender(p)) )
          => ( /\ chan'[p] = SentChan(Read)
               /\ pending'[Read.id[1]] = None )
       /\ ( pc[p] = "await" /\ chan[p].st = "sent" )
          => \/ pc'[p] = "await" /\ chan'[p] = chan[p] /\ ret'[p] = None
             \/ pc'[p] = "done" /\ ret'[p] = Some(Ok(chan[p].val[1]))
    ]_vars

C1_Witness ==
  \E p \in Callers :
    /\ Returned(p) /\ ret[p][1].via = "Ok"
    /\ Body(p).result # None /\ Body(p).id = id[p]
    /\ pending[id[p][1]] = None

\* C2: every terminal outcome of ipc_call is returned through Ok.
C2_NeverErr ==
  \A p \in Callers : Returned(p) => ret[p][1].via = "Ok"

\* C3: an invocation that finds no process handle goes straight to the
\* backend-unavailable response: internal-error code, no identifier, no result,
\* the recorded backend error or else "Backend not running" as message; neither
\* of its two steps touches the table or writes to the backend.
C3_NotRunning ==
  [][\A p \in Callers :
       /\ ( Starts(p) /\ child = None )
          => ( pc'[p] = "not_running" /\ pending' = pending /\ stdin' = stdin )
       /\ ( pc[p] = "not_running" /\ pc'[p] # "not_running" )
          => ( /\ pc'[p] = "done"
               /\ ret'[p] # None
               /\ ret'[p][1].body.result = None
               /\ ret'[p][1].body.id = None
               /\ ret'[p][1].body.error # None
               /\ ret'[p][1].body.error[1].code = -32603
               /\ ret'[p][1].body.error[1].message =
                    IF backend_error = None THEN "Backend not running"
                                            ELSE backend_error[1]
               /\ pending' = pending /\ stdin' = stdin )
    ]_vars

C3_Witness ==
  \E p, q \in Callers :
    /\ Returned(p) /\ Body(p).error # None
    /\ Body(p).error[1].message = "Backend not running" /\ Body(p).id = None
    /\ Returned(q) /\ Body(q).error # None
    /\ Body(q).error[1].message = "Failed to spawn backend" /\ Body(q).id = None
    /\ stdin = <<>> /\ \A i \in Ids : pending[i] = None

\* C4 as stated: in every state, a payload that does not decode is answered by
\* the parse-error response without identifier.
C4_ParseErrorAlways ==
  \A p \in Callers :
    ( Returned(p) /\ ~from_str_request(req[p]).ok )
       => ( /\ Body(p).error # None
            /\ Body(p).error[1].code = -32700
            /\ Body(p).id = None )

\* C4 amended: when a process handle exists, an invocation whose payload does
\* not decode ends in its first step with the parse-error response (code
\* -32700, no identifier), handed back through Err; the table and the backend's
\* input are untouched.
C4_ParseErrorWhenRunning ==
  [][\A p \in Callers :
       ( Starts(p) /\ child # None /\ ~from_str_request(req'[p]).ok )
          => ( /\ pc'[p] = "done"
               /\ ret'[p] # None
               /\ ret'[p][1].via = "Err"
               /\ ret'[p][1].body.result = None
               /\ ret'[p][1].body.id = None
               /\ ret'[p][1].body.error # None
               /\ ret'[p][1].body.error[1].code = -32700
               /\ pending' = pending /\ stdin' = stdin )
    ]_vars

C4_Witness ==
  \E p \in Callers :
    /\ Returned(p) /\ req[p] = <<"x">> /\ child # None
    /\ Body(p).error # None /\ Body(p).error[1].code = -32700
    /\ \E q \in Callers : pc[q] = "await" /\ pending[id[q][1]] = Some(Sender(q))

\* C5: a call whose timer has fired removes its identifier I from the table
\* and returns the "Request timeout" error carrying I; a response for I read
\* after that, with I not in the table, changes no channel, no call, no return
\* value and not the table, emits nothing, and the loop goes on.
C5_TimeoutThenDrop ==
  [][\A p \in Callers :
       /\ ( pc[p] = "timeout" /\ pc'[p] # "timeout" )
          => ( /\ pc'[p] = "done"
               /\ ret'[p] # None
               /\ ret'[p][1].via = "Ok"
               /\ ret'[p][1].body.result = None
               /\ ret'[p][1].body.error # None
               /\ ret'[p][1].body.error[1].code = -32603
               /\ ret'[p][1].body.error[1].message = "Request timeout"
               /\ ret'[p][1].body.id = id[p]
               /\ pending'[id[p][1]] = None )
       /\ ( /\ Returned(p) /\ Body(p).error # None
            /\ Body(p).error[1].message = "Request timeout"
            /\ LineRead /\ ReadOk /\ Read.id = id[p]
            /\ pending[id[p][1]] = None )
          => ( /\ chan' = chan /\ pc' = pc /\ ret' = ret
               /\ pending' = pending /\ events' = events
               /\ lpc' \in {"lines", "recv"} )
    ]_vars

\* p has timed out, a second call awaits under another identifier, and the
\* late response for p's identifier is the next line the loop reads.
C5_Witness ==
  \E p, q \in Callers :
    /\ Returned(p) /\ Body(p).error # None
    /\ Body(p).error[1].message = "Request timeout"
    /\ pending[id[p][1]] = None
    /\ lpc = "lines" /\ ReadOk /\ Read.id = id[p]
    /\ pc[q] = "await" /\ chan[q].st = "open" /\ id[q] # id[p]

\* C6: of two calls in flight with distinct identifiers, a response line
\* carrying the identifier of one is put into that call's channel and leaves
\* the other call's channel and table entry alone; a backend response a call
\* returns carries that call's identifier.
C6_IndependentRouting ==
  [][\A p, q \in Callers :
       ( p # q /\ id[p] # None /\ id[q] # None /\ id[p] # id[q] )
       => /\ ( /\ pc[p] \in {"write", "await"} /\ chan[p].st = "open"
               /\ pc[q] \in {"add_pending", "write", "await"}
               /\ LineRead /\ ReadOk /\ Read.id = id[p] )
             => ( /\ chan'[p] = SentChan(Read)
                  /\ chan'[q] = chan[q]
                  /\ pending'[id[q][1]] = pending[id[q][1]] )
          /\ ( pc[p] = "await" /\ pc'[p] = "done" /\ ret'[p][1].body.result # None )
             => ( ret'[p][1].body.id = id[p] /\ ret'[p][1].body.id # id[q] )
    ]_vars

\* p's request was written first, q's second; q has returned the response to
\* its own request while p still waits for its reply.
C6_Witness ==
  \E p, q \in Callers :
    /\ p # q /\ id[p] # None /\ id[q] # None /\ id[p] # id[q]
    /\ stdin = <<request_line(req[p]), request_line(req[q])>>
    /\ Returned(q) /\ Body(q).result # None /\ Body(q).id = id[q]
    /\ pc[p] = "await" /\ chan[p].st = "open"
    /\ pending[id[p][1]] = Some(Sender(p))

\* C7: a well-formed line without identifier whose result names a method adds
\* exactly one emission, of that method and its params, and leaves the table
\* and every channel as they were.
C7_EventEmission ==
  [][ ( /\ LineRead /\ ReadOk /\ Read.id = None
        /\ Read.result # None /\ Read.result[1].method # None )
      => ( /\ events' = Append(events, [method |-> Read.result[1].method[1],
                                        params |-> Read.result[1].text])
           /\ pending' = pending
           /\ chan' = chan )
    ]_vars

C7_Witness ==
  /\ events = << [method |-> "m", params |-> <<"a">>] >>
  /\ \E p \in Callers : pc[p] = "await" /\ pending[id[p][1]] = Some(Sender(p))

\* C9: under a fair scheduler and a timer that fires, every invocation that
\* has started reaches a terminal outcome, whatever the backend does.
C9_EveryCallReturns ==
  \A p \in Callers : (pc[p] \notin {"idle", "done"}) ~> (pc[p] = "done")

\* Both calls were written, the backend terminated without a reply, and both
\* have returned.
C9_Witness ==
  /\ lpc = "terminated" /\ Len(stdin) = 2
  /\ \A p \in Callers :
       /\ Returned(p) /\ Body(p).error # None
       /\ Body(p).error[1].message = "Request timeout"

\* C10: an envelope returned with an identifier carries the identifier of the
\* request the call submitted.
C10_OwnIdentifier ==
  \A p \in Callers :
    ( Returned(p) /\ Body(p).id # None )
       => ( from_str_request(req[p]).ok
            /\ Body(p).id = Some(from_str_request(req[p]).id) )

C10_Witness ==
  \E p, q \in Callers :
    /\ Returned(p) /\ Body(p).result # None /\ Body(p).id # None
    /\ Returned(q) /\ Body(q).error # None /\ Body(q).id # None

\* C11: once the loop has observed the termination event, every call issued
\* afterwards is rejected as backend-unavailable: it takes the not-running
\* return, registers no entry and writes nothing.
C11_RejectedAfterTermination ==
  [][ \A p \in Callers :
        ( Starts(p) /\ lpc = "terminated" )
           => ( pc'[p] = "not_running"
                /\ chan'[p] = NoChan
                /\ pending' = pending /\ stdin' = stdin ) ]_vars

\* C12: after spawn_backend has failed, at whichever step, the process handle
\* is empty and the error state holds a failure message.
C12_SpawnFailureRecorded ==
  ( setup = "done" /\ child = None ) => backend_error # None

\* C13: when the write fails the call returns the internal-error envelope
\* carrying the write-failure message and the request's identifier, and
\* after that step the table holds no entry under that identifier and none
\* of that call.
C13_WriteFailureCleansUp ==
  [][ \A p \in Callers :
        ( pc[p] = "write_failed" /\ pc'[p] # pc[p] )
           => /\ pc'[p] = "done"
              /\ werr[p] \in { Some("Failed to write to backend"),
                               Some("Backend not running") }
              /\ ret'[p] = Some(Ok(JsonRpcResponse(None,
                                 Some(JsonRpcError(InternalError, werr[p][1])),
                                 id[p])))
              /\ id[p] = Some(from_str_request(req[p]).id)
              /\ pending'[id[p][1]] = None
              /\ \A i \in Ids : pending'[i] # Some(Sender(p)) ]_vars

\* A call whose write failed has returned the write failure with its
\* identifier while the other call, under another identifier, is still
\* registered.
C13_Witness ==
  \E p, q \in Callers :
    /\ Returned(p) /\ Body(p).error # None
    /\ Body(p).error[1].message = "Failed to write to backend"
    /\ Body(p).id = id[p]
    /\ pending[id[p][1]] = None
    /\ pc[q] = "await" /\ pending[id[q][1]] = Some(Sender(q))

\* The ways an entry under identifier i leaves the table in one step.
ByResponse(i)     == LineRead /\ ReadOk /\ Read.id = Some(i)
ByTimeout(i)      ==
  \E p \in Callers : id[p] = Some(i) /\ pc[p] = "timeout" /\ pc'[p] = "done"
ByWriteFailure(i) ==
  \E p \in Callers : id[p] = Some(i) /\ pc[p] = "write_failed" /\ pc'[p] = "done"
ByReplacement(i)  ==
  \E p \in Callers : id[p] = Some(i) /\ pc[p] = "add_pending" /\ pc'[p] = "write"

\* Every entry belongs to a call that has registered and not yet returned;
\* no returned call has an entry; no call in flight, no entry.
EntriesOfLiveCalls ==
  /\ \A i \in Ids :
       pending[i] # None
         => \E p \in Callers :
              /\ pending[i] = Some(Sender(p)) /\ id[p] = Some(i)
              /\ pc[p] \in {"write", "write_failed", "await", "timeout"}
  /\ \A p \in Callers :
       pc[p] \in {"idle", "done"} => \A i \in Ids : pending[i] # Some(Sender(p))
  /\ ( \A p \in Callers : pc[p] \in {"idle", "done"} )
       => \A i \in Ids : pending[i] = None

\* An entry enters the table only at the registration step of its call, so
\* each entry is put in once and taken out at most once.
RegisteredOnce ==
  \A i \in Ids :
    ( pending'[i] # None /\ pending'[i] # pending[i] )
      => \E p \in Callers :
           /\ pending'[i] = Some(Sender(p)) /\ id[p] = Some(i)
           /\ pc[p] = "add_pending" /\ pc'[p] = "write"

\* C14 as stated: an entry exists only between the registration and the
\* terminal outcome of its call, and it leaves the table by a matching
\* response, by timeout expiry or by the write-failure path.
C14_EntryLifetime ==
  /\ []EntriesOfLiveCalls
  /\ [][ /\ RegisteredOnce
         /\ \A i \in Ids :
              ( pending[i] # None /\ pending'[i] # pending[i] )
                => ( ByResponse(i) \/ ByTimeout(i) \/ ByWriteFailure(i) ) ]_vars

\* C14 amended: the same, with a fourth way out of the table: the entry is
\* replaced when another call registers the same identifier.
C14_EntryLifetimeOrReplaced ==
  /\ []EntriesOfLiveCalls
  /\ [][ /\ RegisteredOnce
         /\ \A i \in Ids :
              ( pending[i] # None /\ pending'[i] # pending[i] )
                => ( ByResponse(i) \/ ByTimeout(i) \/ ByWriteFailure(i)
                     \/ ByReplacement(i) ) ]_vars

\* Both calls used the same identifier; the earlier was replaced and has
\* returned, the later one holds the entry.
C14_Witness ==
  \E p, q \in Callers :
    /\ p # q /\ id[p] = id[q] /\ id[p] # None
    /\ Returned(p) /\ Body(p).error # None
    /\ Body(p).error[1].message = "Request cancelled"
    /\ pc[q] = "await" /\ pending[id[q][1]] = Some(Sender(q))

\* The termination event leaves the table and the waiters as they are, and
\* afterwards the loop stays stopped: it reads nothing, emits nothing and
\* resolves no waiter.
StopsForGood ==
  /\ ( lpc = "recv" /\ lpc' = "terminated" )
        => ( pending' = pending /\ chan' = chan )
  /\ lpc = "terminated"
        => /\ lpc' = "terminated" /\ buffer' = buffer /\ events' = events
           /\ \A p \in Callers : chan'[p].st = "sent" => chan'[p] = chan[p]

\* The call of p was in the table when the termination was observed and
\* returns in this step.
OrphanReturns(p) ==
  Sender(p) \in orphans /\ pc[p] # "done" /\ pc'[p] = "done"

\* C15 as stated: the termination event stops the loop for good without
\* touching the table, and every call whose entry was in the table at that
\* point returns 'Request timeout' with its identifier.
C15_OrphansTimeOut ==
  [][ /\ StopsForGood
      /\ \A p \in Callers :
           OrphanReturns(p)
             => ret'[p] = Some(Ok(TimeoutResponse(id[p][1]))) ]_vars

\* C15 amended: the same for the loop; a call whose entry was in the table
\* at that point returns a gateway-made error with its identifier: the
\* timeout if it returns from its timer, which is the only way on while its
\* entry is in the table and it is awaiting; 'Request cancelled' if it was
\* awaiting and its sender was dropped; the write failure if its write
\* failed.
C15_OrphansGetGatewayError ==
  [][ /\ StopsForGood
      /\ \A p \in Callers :
           /\ OrphanReturns(p)
                => /\ pc[p] = "timeout"
                        => ret'[p] = Some(Ok(TimeoutResponse(id[p][1])))
                   /\ pc[p] = "await"
                        => ret'[p] = Some(Ok(CancelledResponse(id[p][1])))
                   /\ pc[p] = "write_failed"
                        => ret'[p] = Some(Ok(WriteErrorResponse(werr[p][1],
                                                                id[p][1])))
                   /\ pc[p] \in {"timeout", "await", "write_failed"}
           /\ ( Sender(p) \in orphans /\ pc[p] = "await"
                /\ pending[id[p][1]] = Some(Sender(p)) /\ pc'[p] # pc[p] )
                => pc'[p] = "timeout" ]_vars

\* Two calls under different identifiers were awaiting when the backend
\* terminated, and both have returned the timeout with their identifiers.
C15_Witness ==
  /\ lpc = "terminated"
  /\ \A p \in Callers :
       /\ Sender(p) \in orphans /\ Returned(p)
       /\ ret[p] = Some(Ok(TimeoutResponse(id[p][1])))
  /\ \E p, q \in Callers : id[p] # id[q]

\* C16: a response line whose identifier is not in the table changes
\* nothing: the table, every waiter's channel, every call and the emitted
\* events stay as they are, and the loop goes on with the next line of the
\* buffer or the next chunk.
C16_UnknownIdIsNoOp ==
  [][ \A i \in Ids :
        ( LineRead /\ ReadOk /\ Read.id = Some(i) /\ pending[i] = None )
           => /\ pending' = pending /\ chan' = chan /\ events' = events
              /\ UNCHANGED callers
              /\ lpc' = after(rest(buffer))
              /\ lpc' \in {"lines", "recv"} ]_vars

\* A call has returned the backend's response for its identifier, another
\* call awaits under another identifier, and the next line the loop reads
\* is a second response for the first identifier.
C16_Witness ==
  \E p, q \in Callers :
    /\ Returned(p) /\ Body(p).result # None
    /\ lpc = "lines" /\ ReadOk /\ Read.id = Body(p).id
    /\ pending[id[p][1]] = None
    /\ pc[q] = "await" /\ chan[q].st = "open" /\ id[q] # id[p]
    /\ pending[id[q][1]] = Some(Sender(q))

\* C17: a call registers before it writes. The only step that appends to the
\* backend's input is the write of a call that stands after its
\* registration, appending that call's request line; a call comes to stand
\* there only by the registration step, which puts its sender under its
\* identifier and writes nothing; and a call that has not registered yet has
\* no entry. A backend that answers only what it has read therefore sees a
\* request only after its identifier was registered.
C17_RegisteredBeforeWritten ==
  [][ /\ stdin' # stdin
        => \E p \in Callers :
             /\ pc[p] = "write" /\ pc'[p] = "await"
             /\ stdin' = Append(stdin, request_line(req[p]))
             /\ from_str_request(request_line(req[p])).id = id[p][1]
      /\ \A p \in Callers :
           /\ ( pc'[p] = "write" /\ pc[p] # "write" )
                => /\ pc[p] = "add_pending"
                   /\ pending'[id[p][1]] = Some(Sender(p))
                   /\ chan'[p] = OpenChan
                   /\ stdin' = stdin
           /\ pc[p] = "add_pending"
                => \A i \in Ids : pending[i] # Some(Sender(p)) ]_vars

\* The request of an awaiting call is in the backend's input, its sender is
\* in the table, and the response carrying its identifier is the next line
\* the loop reads.
C17_Witness ==
  \E p \in Callers :
    /\ pc[p] = "await" /\ pending[id[p][1]] = Some(Sender(p))
    /\ \E k \in 1..Len(stdin) : stdin[k] = request_line(req[p])
    /\ lpc = "lines" /\ ReadOk /\ Read.id = id[p]

-----------------------------------------------------------------------------
\* ipc_call over arbitrary payloads: the backend runs and stays silent, the
\* callers submit any short text of request objects, newlines and blanks.

WireBytes == {"q1", "\n", " "}

WirePayloads ==
  UNION { [1..n -> WireBytes] : n \in 1..MaxPayload }

InitWire ==
  /\ child = Some("child")
  /\ backend_error = None
  /\ pending = [i \in Ids |-> None]
  /\ setup = "done"
  /\ pc = [p \in Callers |-> "idle"]
  /\ req = [p \in Callers |-> <<>>]
  /\ id = [p \in Callers |-> None]
  /\ ncall = [p \in Callers |-> 0]
  /\ chan = [p \in Callers |-> NoChan]
  /\ werr = [p \in Callers |-> None]
  /\ ret = [p \in Callers |-> None]
  /\ stdin = <<>>
  /\ lpc = "recv"
  /\ buffer = <<>>
  /\ nemit = 0
  /\ trace = FALSE
  /\ stream = <<>>
  /\ decoded = <<>>
  /\ events = <<>>
  /\ orphans = {}
  /\ held = [l \in Locks |-> None]

NextWire ==
  \E p \in Callers :
    \/ \E payload \in WirePayloads : ncall[p] < MaxCalls /\ CallStart(p, payload)
    \/ AddPending(p)
    \/ \E io_ok \in BOOLEAN : Write(p, io_ok)
    \/ ReturnWriteFailed(p)
    \/ AwaitCancelled(p)
    \/ AwaitTimeout(p)
    \/ ReturnTimeout(p)

SpecWire == InitWire /\ [][NextWire]_vars

\* C19: the text written for a payload that decodes is the payload
\* normalized to end with exactly one line terminator: it ends with a
\* newline, not with two, and a payload that did not end with a newline is
\* written with one appended.
C19_ExactlyOneTerminator ==
  [][ stdin' # stdin
        => \E p \in Callers :
             /\ pc[p] = "write" /\ from_str_request(req[p]).ok
             /\ stdin' = Append(stdin, stdin'[Len(stdin')])
             /\ LET payload == req[p]
                    written == stdin'[Len(stdin')]
                    n == Len(written)
                IN  /\ written[n] = "\n"
                    /\ n > 1 => written[n - 1] # "\n"
                    /\ payload[Len(payload)] # "\n"
                         => written = Append(payload, "\n") ]_vars

\* q registers in this step while the table holds p's sender under the same
\* identifier.
Replaces(q, p) ==
  /\ p # q /\ pc[q] = "add_pending" /\ pc'[q] = "write"
  /\ pending[id[q][1]] = Some(Sender(p))

\* C20: registration replaces. When q registers an identifier under which
\* p's sender is still stored, the table holds q's sender and no longer p's,
\* and p's waiter is closed if it was open; a call whose waiter was closed,
\* or whose timer had fired, never gets a response: it returns an error made by the gateway, which is
\* 'Request cancelled' with its identifier when it returns from awaiting;
\* and a response for an identifier goes to the call whose sender the table
\* holds, if that call is still receiving, and to no other.
C20_RegistrationReplaces ==
  [][ /\ \A p, q \in Callers :
           Replaces(q, p)
             => /\ pending'[id[q][1]] = Some(Sender(q))
                /\ \A i \in Ids : pending'[i] # Some(Sender(p))
                /\ chan'[p] = IF chan[p].st = "open" THEN ClosedChan ELSE chan[p]
                /\ chan'[p].st # "sent"
      /\ \A p \in Callers :
           chan[p].st \in {"closed", "dropped"}
             => /\ chan'[p].st \in {"closed", "dropped", "none"}
                /\ ( pc[p] # "done" /\ pc'[p] = "done" )
                     => /\ ret'[p][1].via = "Ok"
                        /\ ret'[p][1].body.result = None
                        /\ ret'[p][1].body.error # None
                        /\ ret'[p][1].body.id = id[p]
                        /\ pc[p] = "await"
                             => ret'[p] = Some(Ok(CancelledResponse(id[p][1])))
      /\ \A q \in Callers, i \in Ids :
           ( LineRead /\ ReadOk /\ Read.id = Some(i)
             /\ pending[i] = Some(Sender(q)) )
             => /\ chan'[q] = IF chan[q].st = "open" THEN SentChan(Read)
                                                      ELSE chan[q]
                /\ \A p \in Callers \ {q} : chan'[p] = chan[p] ]_vars

\* Two calls used the same identifier: the earlier has returned 'Request
\* cancelled', the later has returned the backend's response.
C20_Witness ==
  \E p, q \in Callers :
    /\ p # q /\ id[p] = id[q] /\ id[p] # None
    /\ Returned(p) /\ ret[p] = Some(Ok(CancelledResponse(id[p][1])))
    /\ Returned(q) /\ Body(q).result # None /\ Body(q).id = id[q]

-----------------------------------------------------------------------------
\* The locks of BackendState, one acquisition per step. The operations are
\* the actions above; each is entered with the guards its code takes and
\* drops them when its statement ends.

\* The statement a process is executing: its position and the turn it is in.
Statement(proc) ==
  IF proc \in Callers THEN <<pc[proc], ncall[proc]>>
  ELSE IF proc = "loop" THEN <<nemit, buffer>>
  ELSE <<setup>>

guard_kept(l) ==
  IF held[l] # None THEN Some(held[l][1].by) ELSE None

\* The process whose MutexGuard on l is alive. Every .lock() of the source
\* is a temporary of one statement (lib.rs 75, 79, 83, 87, 91-98, 102;
\* commands.rs 51, 81) or of the `if let` at lib.rs 165-167, so the guard
\* lives until the process leaves the statement that took it.
guard(l) ==
  IF held[l] # None /\ held[l][1].at = Statement(held[l][1].by)
    THEN Some(held[l][1].by)
    ELSE None

holds(proc) == {l \in Locks : guard(l) = Some(proc)}

\* The locks an operation takes, in the order it takes them.
GuardsOf(op) ==
  CASE op \in {"is_running", "write", "set_child"}    -> <<"child">>
    [] op \in {"get_error", "set_error"}              -> <<"backend_error">>
    [] op \in {"add_pending", "remove", "resolve"}    -> <<"pending_requests">>
    [] OTHER                                          -> <<>>

\* The operation a process is about to perform. Which way spawn_backend goes
\* is open until it has taken a lock; then it is the way that takes that lock.
Ops(proc) ==
  IF proc \in Callers
    THEN CASE pc[proc] \in {"idle", "done"}  -> {"is_running"}
           [] pc[proc] = "not_running"       -> {"get_error"}
           [] pc[proc] = "add_pending"       -> {"add_pending"}
           [] pc[proc] = "write"             -> {"write"}
           [] pc[proc] \in {"write_failed", "timeout"} -> {"remove"}
           [] OTHER                          -> {"await"}
  ELSE IF proc = "loop"
    THEN CASE lpc = "lines" -> IF ReadOk /\ Read.id # None
                                 THEN {"resolve"} ELSE {"skip"}
           [] lpc = "recv"  -> {"recv"}
           [] OTHER         -> {}
  ELSE IF setup = "todo"
    THEN {op \in {"sidecar", "set_error", "set_child"} :
            \A l \in holds("setup") : \E j \in 1..Len(GuardsOf(op)) : GuardsOf(op)[j] = l}
    ELSE {}

\* A process that still has an operation to perform within the bounds.
Active(proc) ==
  IF proc \in Callers
    THEN pc[proc] \notin {"idle", "done"} \/ ncall[proc] < MaxCalls
    ELSE Ops(proc) # {}

\* Mutex::lock: the process takes the next lock of its operation, waiting
\* while another guard on it is alive.
Lock(proc, l) ==
  /\ Active(proc)
  /\ \E op \in Ops(proc) :
       LET ls == GuardsOf(op)
           missing == {j \in 1..Len(ls) : ls[j] \notin holds(proc)}
       IN  /\ missing # {}
           /\ l = ls[CHOOSE j \in missing : \A k \in missing : j <= k]
  /\ guard(l) = None
  /\ held' = [k \in Locks |->
               IF k = l THEN Some([by |-> proc, at |-> Statement(proc)])
               ELSE IF guard(k) = None THEN None ELSE held[k]]
  /\ UNCHANGED <<child, backend_error, setup, pending, chan, callers, loop>>

\* The process is inside operation op: it holds exactly the guards of op.
Entered(proc, op) ==
  /\ op \in Ops(proc)
  /\ holds(proc) = {GuardsOf(op)[j] : j \in 1..Len(GuardsOf(op))}

LockPayloads == {<<"q1">>, <<"x">>}
LockChunks   == {<<"i1", "a", "\n">>, <<"n", "m", "a", "\n">>}

CallerStep(p) ==
  \/ \E l \in Locks : Lock(p, l)
  \/ \E payload \in LockPayloads : Entered(p, "is_running") /\ CallStart(p, payload)
  \/ Entered(p, "get_error") /\ ReturnNotRunning(p)
  \/ Entered(p, "add_pending") /\ AddPending(p)
  \/ \E io_ok \in BOOLEAN : Entered(p, "write") /\ Write(p, io_ok)
  \/ Entered(p, "remove") /\ ReturnWriteFailed(p)
  \/ Entered(p, "await") /\ AwaitDelivered(p)
  \/ Entered(p, "await") /\ AwaitCancelled(p)
  \/ Entered(p, "await") /\ AwaitTimeout(p)
  \/ Entered(p, "remove") /\ ReturnTimeout(p)

LoopStep ==
  \/ \E l \in Locks : Lock("loop", l)
  \/ \E chunk \in LockChunks :
       nemit < MaxEmit /\ Entered("loop", "recv") /\ RecvStdout(chunk)
  \/ Entered("loop", "resolve") /\ DispatchLine
  \/ Entered("loop", "skip") /\ DispatchLine
  \/ nemit < MaxEmit /\ Entered("loop", "recv") /\ RecvOther
  \/ nemit < MaxEmit /\ Entered("loop", "recv") /\ RecvTerminated
  \/ Entered("loop", "recv") /\ RecvClosed

SetupStep ==
  \/ \E l \in Locks : Lock("setup", l)
  \/ Entered("setup", "sidecar") /\ SpawnSidecarFails
  \/ Entered("setup", "set_error") /\ SpawnFails
  \/ Entered("setup", "set_child") /\ SpawnOk

StepOf(proc) ==
  IF proc \in Callers THEN CallerStep(proc)
  ELSE IF proc = "loop" THEN LoopStep
  ELSE SetupStep

NextLocks ==
  \/ \E p \in Callers : CallerStep(p)
  \/ LoopStep
  \/ SetupStep

SpecLocks == Init /\ [][NextLocks]_vars

\* C18: no process ever holds the guards of two locks, no call is at its
\* await while it holds a guard, and a process that holds a guard can always
\* take its next step, so no set of processes waits on one another.
C18_LockDiscipline ==
  /\ \A proc \in Procs : Cardinality(holds(proc)) <= 1
  /\ \A p \in Callers : pc[p] = "await" => holds(p) = {}
  /\ \A proc \in Procs : holds(proc) # {} => ENABLED StepOf(proc)

\* The loop holds the table's lock to resolve a response while one call
\* waits for that lock to register and the other is suspended at its await.
C18_Witness ==
  \E p, q \in Callers :
    /\ holds("loop") = {"pending_requests"}
    /\ pc[p] = "add_pending" /\ holds(p) = {}
    /\ pc[q] = "await" /\ chan[q].st = "open"

====
